---- MODULE Spec2Model ----
(***************************************************************************)
(* Model of frigate/http.py: the HTTP serving layer of Frigate.  One       *)
(* request is served per behaviour; the route it names is drawn in Init,   *)
(* its arguments are drawn when the handler starts.  The collaborators the *)
(* handlers read (event store, tracked objects, gauges, live frames) are   *)
(* owned by the external pipeline, which acts between the handler's steps. *)
(*                                                                         *)
(* Query-string values are texts: sequences of one-character strings, so   *)
(* that int() and GLOB are computed character by character.                *)
(***************************************************************************)
EXTENDS Integers, Sequences, FiniteSets, TLC

VARIABLES
    route,      \* the route of the request being served
    pc,         \* position of the handler (or of the stream generator)
    args,       \* the request's arguments (path and query string)
    resp,       \* the response: [status, body]
    local,      \* the handler's local variables
    db,             \* the event store (rows of Event)
    tracked_objects,\* per camera and id: the pipeline's tracked object
    detection_fps,  \* per camera: the detection_fps gauge, in thousandths
    fetched,    \* whether the handler has asked the pipeline for a frame
    stream      \* the MJPEG response: connection, clock, chunks emitted

vars == <<route, pc, args, resp, local, db, tracked_objects, detection_fps,
          fetched, stream>>

pipeline == <<db, tracked_objects, detection_fps>>

(***************************************************************************)
(* Texts and Python conversions                                            *)
(***************************************************************************)
\* request.args.get(key) of a key that is absent (None)
NoArg == [given |-> FALSE, text |-> <<>>]

Arg(t) == [given |-> TRUE, text |-> t]

Digits == <<"0", "1", "2", "3", "4", "5", "6", "7", "8", "9">>

IsDigit(c) == \E i \in 1..10 : Digits[i] = c

DigitVal(c) == (CHOOSE i \in 1..10 : Digits[i] = c) - 1

RECURSIVE DigitsVal(_, _)
DigitsVal(t, acc) ==
    IF t = <<>> THEN acc ELSE DigitsVal(Tail(t), 10 * acc + DigitVal(Head(t)))

\* int(text): an optional sign and at least one digit; anything else raises
\* ValueError (ok = FALSE).
ParseInt(t) ==
    LET body == IF t # <<>> /\ Head(t) \in {"-", "+"} THEN Tail(t) ELSE t
        good == body # <<>> /\ \A i \in 1..Len(body) : IsDigit(body[i])
    IN  IF ~good THEN [ok |-> FALSE, val |-> 0]
        ELSE [ok |-> TRUE,
              val |-> IF Head(t) = "-" THEN 0 - DigitsVal(body, 0)
                      ELSE DigitsVal(body, 0)]

\* request.args.get(key, type=int): None when absent, and None again when
\* int() raises ValueError (werkzeug returns the default).
GetInt(a) ==
    IF a.given /\ ParseInt(a.text).ok
    THEN [none |-> FALSE, val |-> ParseInt(a.text).val]
    ELSE [none |-> TRUE, val |-> 0]

(***************************************************************************)
(* The event store and /events                                             *)
(***************************************************************************)
Ev(i, c, l, s, z) == [id |-> i, camera |-> c, label |-> l, start_time |-> s, zones |-> z]

\* Rows the store may hold.  Zone names are texts; two rows share a start time.
EventUniverse ==
    { Ev("e1", "front", "person", 10, << <<"a">> >>),
      Ev("e2", "front", "car",    20, << <<"a", "b">> >>),
      Ev("e3", "back",  "person", 20, << >>),
      Ev("e4", "back",  "person", 30, << <<"a">>, <<"b">> >>) }

\* The stores a request may find
Stores ==
    { {e \in EventUniverse : e.id = "e1"},
      {e \in EventUniverse : e.id # "e4"},
      EventUniverse }

\* json.dumps of one string: quotes around it, '"' and '\' escaped
RECURSIVE JsonChars(_)
JsonChars(t) ==
    IF t = <<>> THEN <<>>
    ELSE (IF Head(t) \in {"\"", "\\"} THEN <<"\\", Head(t)>> ELSE <<Head(t)>>)
         \o JsonChars(Tail(t))

JsonString(t) == <<"\"">> \o JsonChars(t) \o <<"\"">>

RECURSIVE JsonItems(_)
JsonItems(zs) ==
    IF zs = <<>> THEN <<>>
    ELSE JsonString(Head(zs))
         \o (IF Tail(zs) = <<>> THEN <<>> ELSE <<",", " ">> \o JsonItems(Tail(zs)))

\* Event.zones.cast('text'): the JSON text the column stores
ZonesText(zs) == <<"[">> \o JsonItems(zs) \o <<"]">>

\* SQLite's GLOB (peewee's % on a SqliteDatabase): '*' matches any run of
\* characters, '?' any one character, the whole text must match.
RECURSIVE Glob(_, _)
Glob(p, t) ==
    IF p = <<>> THEN t = <<>>
    ELSE IF Head(p) = "*" THEN Glob(Tail(p), t) \/ (t # <<>> /\ Glob(p, Tail(t)))
    ELSE IF t = <<>> THEN FALSE
    ELSE (Head(p) = "?" \/ Head(p) = Head(t)) /\ Glob(Tail(p), Tail(t))

\* f"*\"{zone}\"*"
ZonePattern(zone) == <<"*", "\"">> \o zone \o <<"\"", "*">>

ZoneClause(e, zone) == Glob(ZonePattern(zone), ZonesText(e.zones))

\* Python truthiness of the values the handler tests
TruthyStr(a) == a.given /\ a.text # ""
TruthyText(a) == a.given /\ a.text # <<>>
TruthyInt(v) == ~v.none /\ v.val # 0

\* reduce(operator.and_, clauses): the clauses the handler appended
Where(e, a) ==
    /\ TruthyStr(a.camera) => e.camera = a.camera.text
    /\ TruthyStr(a.label) => e.label = a.label.text
    /\ TruthyText(a.zone) => ZoneClause(e, a.zone.text)
    /\ TruthyInt(GetInt(a.after)) => e.start_time >= GetInt(a.after).val
    /\ TruthyInt(GetInt(a.before)) => e.start_time <= GetInt(a.before).val

IsDescending(s) == \A i \in 1..(Len(s) - 1) : s[i].start_time >= s[i + 1].start_time

\* order_by(Event.start_time.desc()): every order of the rows that is
\* descending in start_time (rows of equal start_time come in either order)
OrderedRows(S) ==
    { s \in [1..Cardinality(S) -> S] :
        /\ \A i, j \in 1..Cardinality(S) : i # j => s[i] # s[j]
        /\ IsDescending(s) }

Take(s, n) == IF n >= Len(s) THEN s ELSE SubSeq(s, 1, n)

\* request.args.get('limit', 100), handed to .limit() as it is.  SQLite
\* coerces a text that reads as an integer, takes a negative LIMIT as no
\* limit, and fails the statement on any other text.
DefaultLimit == 100

LimitOf(a) ==
    IF ~a.limit.given THEN [ok |-> TRUE, val |-> DefaultLimit]
    ELSE ParseInt(a.limit.text)

ApplyLimit(s, n) == IF n < 0 THEN s ELSE Take(s, n)

Response(status, body) == [status |-> status, body |-> body]

NoResponse == Response(0, <<>>)

\* An exception no handler catches: Flask answers 500
ServerFault == Response(500, <<>>)

LimitArgs == {NoArg, Arg(<<"1">>), Arg(<<"2">>), Arg(<<"-", "1">>), Arg(<<"x">>)}
CameraArgs == {NoArg, Arg(""), Arg("front")}
LabelArgs == {NoArg, Arg("person")}
ZoneArgs == {NoArg, Arg(<<"a">>), Arg(<<"b">>), Arg(<<"*">>)}
TimeArgs == {NoArg, Arg(<<"0">>), Arg(<<"2", "0">>), Arg(<<"x">>)}

EventsArgs ==
    [limit : LimitArgs, camera : CameraArgs, label : LabelArgs,
     zone : ZoneArgs, after : TimeArgs, before : TimeArgs]

\* GET /events
events ==
    /\ route = "events" /\ pc = "idle"
    /\ \E a \in EventsArgs :
        /\ args' = a
        /\ IF ~LimitOf(a).ok
           THEN resp' = ServerFault
           ELSE \E rows \in OrderedRows({e \in db : Where(e, a)}) :
                    resp' = Response(200, ApplyLimit(rows, LimitOf(a).val))
    /\ pc' = "done"
    /\ UNCHANGED <<route, local, pipeline, fetched, stream>>

(***************************************************************************)
(* /events/<id>/snapshot.jpg and the pipeline's tracked objects            *)
(***************************************************************************)
\* frigate_config.cameras, camera_states: the configured cameras, in order
Cameras == <<"front", "back">>

CameraNames == {Cameras[i] : i \in 1..Len(Cameras)}

TrackedIds == {"t1", "t2"}

\* The most versions of its snapshot a tracked object goes through
MaxJpg == 2

\* A tracked object: not yet started, in camera_state.tracked_objects, or
\* removed from it (a holder of a reference still reads the object).
NotTracked == [state |-> "future", jpg |-> 0]

\* The pipeline starts a track: tracked_objects[id] = obj
TrackStart(c, id) ==
    /\ tracked_objects[c][id].state = "future"
    /\ tracked_objects' = [tracked_objects EXCEPT ![c][id] = [state |-> "active", jpg |-> 1]]

\* The pipeline replaces the object's best snapshot
TrackUpdate(c, id) ==
    /\ tracked_objects[c][id].state = "active"
    /\ tracked_objects[c][id].jpg < MaxJpg
    /\ tracked_objects' = [tracked_objects EXCEPT ![c][id].jpg = @ + 1]

\* The pipeline ends the track: del tracked_objects[id]
TrackEnd(c, id) ==
    /\ tracked_objects[c][id].state = "active"
    /\ tracked_objects' = [tracked_objects EXCEPT ![c][id].state = "gone"]

Pipeline_tracking ==
    /\ route = "snapshot" /\ pc # "done"
    /\ \E c \in CameraNames, id \in TrackedIds :
        TrackStart(c, id) \/ TrackUpdate(c, id) \/ TrackEnd(c, id)
    /\ UNCHANGED <<route, pc, args, resp, local, db, detection_fps, fetched, stream>>

\* id in camera_state.tracked_objects
IsTracked(c, id) == id \in TrackedIds /\ tracked_objects[c][id].state = "active"

NotFound == Response(404, <<[kind |-> "text", text |-> "Event not found"]>>)

\* The tracked-object path without its try: the exception reaches Flask
SnapshotReraise == ServerFault

\* except: return "Event not found", 404 -- whatever the tracked-object path
\* raises
SnapshotExcept == NotFound

SnapshotIds == {"e1", "t1", "t2"}

\* Event.get(Event.id == id): the thumbnail, or DoesNotExist and on to the
\* tracked objects
event_snapshot ==
    /\ route = "snapshot" /\ pc = "idle"
    /\ \E id \in SnapshotIds :
        /\ args' = [id |-> id]
        /\ IF \E e \in db : e.id = id
           THEN /\ resp' = Response(200, <<[kind |-> "thumbnail", id |-> id, jpg |-> 0]>>)
                /\ pc' = "done"
                /\ local' = local
           ELSE /\ resp' = resp
                /\ pc' = "member"
                /\ local' = [cam |-> 1, tracked_obj |-> "unset"]
    /\ UNCHANGED <<route, pipeline, fetched, stream>>

\* for camera_state in camera_states.values(): if id in tracked_objects
snapshot_member ==
    /\ route = "snapshot" /\ pc = "member"
    /\ IF local.cam > Len(Cameras)
       THEN /\ resp' = NotFound
            /\ pc' = "done"
            /\ local' = local
       ELSE IF IsTracked(Cameras[local.cam], args.id)
       THEN /\ pc' = "get"
            /\ UNCHANGED <<resp, local>>
       ELSE /\ local' = [local EXCEPT !.cam = @ + 1]
            /\ UNCHANGED <<resp, pc>>
    /\ UNCHANGED <<route, args, pipeline, fetched, stream>>

\* tracked_obj = tracked_objects.get(id); if not tracked_obj is None
snapshot_get ==
    /\ route = "snapshot" /\ pc = "get"
    /\ IF IsTracked(Cameras[local.cam], args.id)
       THEN /\ local' = [local EXCEPT !.tracked_obj = "ref"]
            /\ pc' = "jpg"
       ELSE /\ local' = [cam |-> local.cam + 1, tracked_obj |-> "None"]
            /\ pc' = "member"
    /\ UNCHANGED <<route, args, resp, pipeline, fetched, stream>>

\* make_response(tracked_obj.get_jpg_bytes()): the bytes the object holds
\* now, whether or not it is still tracked; the read of the pipeline's object
\* may raise.
snapshot_jpg ==
    /\ route = "snapshot" /\ pc = "jpg"
    /\ \E raised \in BOOLEAN :
        resp' = IF raised THEN SnapshotExcept
                ELSE Response(200, <<[kind |-> "tracked", id |-> args.id,
                                      jpg |-> tracked_objects[Cameras[local.cam]][args.id].jpg]>>)
    /\ pc' = "done"
    /\ UNCHANGED <<route, args, local, pipeline, fetched, stream>>

(***************************************************************************)
(* /stats and the gauges                                                   *)
(***************************************************************************)
\* Values of a gauge, in thousandths; none of them, and no sum of them, lies
\* halfway between two hundredths.
GaugeValues == {0, 4, 1006}

\* round(x, 2) of a value in thousandths (halfway cases to the even hundredth)
Round2(x) ==
    LET lo == (x \div 10) * 10
        r == x % 10
    IN  IF r < 5 THEN lo
        ELSE IF r > 5 THEN lo + 10
        ELSE IF (lo \div 10) % 2 = 0 THEN lo ELSE lo + 10

\* A camera process stores a new value in its gauge
Pipeline_gauge ==
    /\ route = "stats" /\ pc # "done"
    /\ \E c \in CameraNames, v \in GaugeValues :
        /\ detection_fps[c] # v
        /\ detection_fps' = [detection_fps EXCEPT ![c] = v]
    /\ UNCHANGED <<route, pc, args, resp, local, db, tracked_objects, fetched, stream>>

\* lines 139-142
stats ==
    /\ route = "stats" /\ pc = "idle"
    /\ args' = <<>>
    /\ local' = [i |-> 1, total_detection_fps |-> 0, stats |-> <<>>]
    /\ pc' = IF Len(Cameras) = 0 THEN "finish" ELSE "sum"
    /\ UNCHANGED <<route, resp, pipeline, fetched, stream>>

\* total_detection_fps += camera_stats['detection_fps'].value
stats_sum ==
    /\ route = "stats" /\ pc = "sum"
    /\ local' = [local EXCEPT !.total_detection_fps = @ + detection_fps[Cameras[local.i]]]
    /\ pc' = "round"
    /\ UNCHANGED <<route, args, resp, pipeline, fetched, stream>>

\* stats[name] = {..., 'detection_fps': round(...value, 2), ...}: the second
\* read of the gauge.  The other gauges and the pids of the entry, and the
\* detectors' entries, are read once each and enter no sum.
stats_round ==
    /\ route = "stats" /\ pc = "round"
    /\ local' = [local EXCEPT !.stats = Append(@, Round2(detection_fps[Cameras[local.i]])),
                              !.i = @ + 1]
    /\ pc' = IF local.i = Len(Cameras) THEN "finish" ELSE "sum"
    /\ UNCHANGED <<route, args, resp, pipeline, fetched, stream>>

\* stats['detection_fps'] = round(total_detection_fps, 2); jsonify(stats)
stats_finish ==
    /\ route = "stats" /\ pc = "finish"
    /\ resp' = Response(200, <<[cameras |-> local.stats,
                                detection_fps |-> Round2(local.total_detection_fps)]>>)
    /\ pc' = "done"
    /\ UNCHANGED <<route, args, local, pipeline, fetched, stream>>

(***************************************************************************)
(* The camera routes: /<camera>/latest.jpg, /<camera>/<label>/best.jpg     *)
(***************************************************************************)
CameraNotFound(name) ==
    Response(404, <<[kind |-> "text", text |-> "Camera named {} not found", name |-> name]>>)

\* np.zeros((720,1280,3), np.uint8)
BlankHeight == 720
BlankWidth == 1280

Shape(h, w) == [none |-> FALSE, h |-> h, w |-> w]

NoFrame == [none |-> TRUE, h |-> 0, w |-> 0]

\* What the pipeline holds as a camera's current (or best) frame
Frames == {NoFrame, Shape(BlankHeight, BlankWidth)}

\* int(a / b) for b > 0: the quotient cut toward zero
TruncDiv(a, b) == IF a >= 0 THEN a \div b ELSE 0 - ((0 - a) \div b)

\* cv2.resize(frame, dsize=(width, height)) raises on an empty source or an
\* empty target
ResizeOk(frame, width, height) == frame.h > 0 /\ frame.w > 0 /\ width > 0 /\ height > 0

\* height = int(request.args.get('h', str(frame.shape[0])));
\* width = int(height*frame.shape[1]/frame.shape[0]); resize; imencode
ResizedJpg(frame, h) ==
    LET height == IF h.given THEN ParseInt(h.text) ELSE [ok |-> TRUE, val |-> frame.h]
        width == TruncDiv(height.val * frame.w, frame.h)
    IN  IF ~height.ok \/ frame.h = 0 THEN ServerFault
        ELSE IF ~ResizeOk(frame, width, height.val) THEN ServerFault
        ELSE Response(200, <<[kind |-> "jpg", h |-> height.val, w |-> width]>>)

CameraArgNames == {"front", "nosuch"}
HeightArgs == {NoArg, Arg(<<"1">>), Arg(<<"0">>), Arg(<<"-", "1">>), Arg(<<"x">>)}
FpsArgs == {NoArg, Arg(<<"1">>), Arg(<<"2">>), Arg(<<"0">>), Arg(<<"-", "1">>), Arg(<<"x">>)}
CropArgs == {NoArg, Arg(<<"1">>), Arg(<<"x">>)}

Blank == Shape(BlankHeight, BlankWidth)

\* GET /<camera_name>/latest.jpg
latest_frame ==
    /\ route = "latest" /\ pc = "idle"
    /\ \E name \in CameraArgNames, h \in HeightArgs :
        /\ args' = [camera |-> name, h |-> h]
        /\ IF name \in CameraNames
           THEN \E frame \in Frames :
                    /\ fetched' = TRUE
                    /\ resp' = ResizedJpg(IF frame.none THEN Blank ELSE frame, h)
           ELSE /\ fetched' = fetched
                /\ resp' = CameraNotFound(name)
    /\ pc' = "done"
    /\ UNCHANGED <<route, local, pipeline, stream>>

\* best_object.get('region', [0,0,300,300])
DefaultRegion == <<0, 0, 300, 300>>

\* What get_best returns: nothing yet, or a frame with or without a region
BestObjects ==
    { [frame |-> NoFrame, region |-> <<>>],
      [frame |-> Blank, region |-> <<>>],
      [frame |-> Blank, region |-> <<100, 100, 500, 400>>],
      [frame |-> Blank, region |-> <<100, 800, 500, 900>>] }

Min(a, b) == IF a < b THEN a ELSE b

\* best_frame[region[1]:region[3], region[0]:region[2]]: the slice's shape
Crop(frame, r) ==
    LET rows == Min(r[4], frame.h) - Min(r[2], frame.h)
        cols == Min(r[3], frame.w) - Min(r[1], frame.w)
    IN  Shape(IF rows > 0 THEN rows ELSE 0, IF cols > 0 THEN cols ELSE 0)

\* GET /<camera_name>/<label>/best.jpg
best ==
    /\ route = "best" /\ pc = "idle"
    /\ \E name \in CameraArgNames, h \in HeightArgs, c \in CropArgs :
        /\ args' = [camera |-> name, h |-> h, crop |-> c]
        /\ IF name \in CameraNames
           THEN \E best_object \in BestObjects :
                    LET best_frame == IF best_object.frame.none THEN Blank
                                      ELSE best_object.frame
                        crop == TruthyInt(GetInt(c))
                        region == IF best_object.region = <<>> THEN DefaultRegion
                                  ELSE best_object.region
                    IN  /\ fetched' = TRUE
                        /\ resp' = ResizedJpg(IF crop THEN Crop(best_frame, region)
                                              ELSE best_frame, h)
           ELSE /\ fetched' = fetched
                /\ resp' = CameraNotFound(name)
    /\ pc' = "done"
    /\ UNCHANGED <<route, local, pipeline, stream>>

(***************************************************************************)
(* /<camera>: the MJPEG stream                                             *)
(*                                                                         *)
(* imagestream is a generator: the server runs it with next(), it hands a  *)
(* chunk back at its yield and stays suspended there until the server asks *)
(* for the next chunk or closes it.  time.sleep blocks the generator; it   *)
(* is not a point where the generator can be closed.  Time is counted in   *)
(* ticks; any step may take any number of ticks.                           *)
(***************************************************************************)
\* Ticks in one second
TicksPerSecond == 2

\* Ticks counted since the previous chunk before the count stops growing
ElapsedCap == TicksPerSecond + 1

\* Chunks counted before the count stops growing
MaxChunks == 2

\* int(request.args.get('fps', '3')), int(request.args.get('h', '360'))
DefaultFps == <<"3">>
DefaultH == <<"3", "6", "0">>

\* GET /<camera_name>: both int() calls come before the camera test
mjpeg_feed ==
    /\ route = "mjpeg" /\ pc = "idle"
    /\ \E name \in CameraArgNames, f \in FpsArgs, h \in HeightArgs :
        LET fps == ParseInt(IF f.given THEN f.text ELSE DefaultFps)
            height == ParseInt(IF h.given THEN h.text ELSE DefaultH)
        IN  /\ args' = [camera |-> name, fps |-> f, h |-> h]
            /\ IF ~fps.ok \/ ~height.ok
               THEN /\ resp' = ServerFault
                    /\ pc' = "done"
                    /\ UNCHANGED <<local, stream>>
               ELSE IF name \in CameraNames
               THEN /\ resp' = Response(200, <<>>)
                    /\ pc' = "unstarted"
                    /\ local' = [fps |-> fps.val, height |-> height.val, frame |-> NoFrame]
                    /\ stream' = [conn |-> "open", remaining |-> 0, elapsed |-> 0,
                                  chunks |-> 0, gap |-> 0, late |-> 0]
               ELSE /\ resp' = CameraNotFound(name)
                    /\ pc' = "done"
                    /\ UNCHANGED <<local, stream>>
    /\ UNCHANGED <<route, pipeline, fetched>>

Live == route = "mjpeg" /\ pc \in {"unstarted", "sleep", "fetch", "encode", "yield"}

\* 1/fps as an integer division: no sleep at all for fps > 1
SleepTicksIntDiv(fps) == TicksPerSecond * (1 \div fps)

\* time.sleep(1/fps) returns no sooner than 1/fps seconds later: the number
\* of whole ticks that takes
SleepTicks(fps) == (TicksPerSecond + fps - 1) \div fps

\* Time passes
Tick ==
    /\ Live
    /\ stream.remaining > 0 \/ stream.elapsed < ElapsedCap
    /\ stream' = [stream EXCEPT
                    !.remaining = IF @ > 0 THEN @ - 1 ELSE 0,
                    !.elapsed = IF @ < ElapsedCap THEN @ + 1 ELSE @]
    /\ UNCHANGED <<route, pc, args, resp, local, pipeline, fetched>>

\* The consumer closes the connection
ConsumerClose ==
    /\ Live
    /\ stream.conn = "open"
    /\ stream' = [stream EXCEPT !.conn = "closed"]
    /\ UNCHANGED <<route, pc, args, resp, local, pipeline, fetched>>

\* A loop that catches GeneratorExit at its yield and goes on
AtYieldIgnoringClose(conn) == "sleep"

\* The generator, suspended at its yield when the server has tried to send
\* the chunk: closed there (GeneratorExit, which the loop does not catch) if
\* the connection is closed, resumed by the next next() if not
AtYield(conn) == IF conn = "closed" THEN "closed" ELSE "sleep"

\* while True: time.sleep(1/fps) -- 1/0 raises ZeroDivisionError, a negative
\* sleep raises ValueError
EnterLoop ==
    IF local.fps <= 0
    THEN /\ pc' = "raised"
         /\ stream' = stream
    ELSE /\ pc' = "sleep"
         /\ stream' = [stream EXCEPT !.remaining = SleepTicks(local.fps)]

\* The server's first next(): the generator runs from its top
imagestream_start ==
    /\ route = "mjpeg" /\ pc = "unstarted"
    /\ EnterLoop
    /\ UNCHANGED <<route, args, resp, local, pipeline, fetched>>

\* The server has tried to send the chunk; it closes the generator or asks
\* for the next chunk
imagestream_resume ==
    /\ route = "mjpeg" /\ pc = "yield"
    /\ IF AtYield(stream.conn) = "closed"
       THEN /\ pc' = "closed"
            /\ stream' = stream
       ELSE EnterLoop
    /\ UNCHANGED <<route, args, resp, local, pipeline, fetched>>

\* time.sleep returns
imagestream_wake ==
    /\ route = "mjpeg" /\ pc = "sleep"
    /\ stream.remaining = 0
    /\ pc' = "fetch"
    /\ UNCHANGED <<route, args, resp, local, pipeline, fetched, stream>>

\* frame = get_current_frame(camera_name, draw=True); if frame is None:
\* frame = np.zeros((height,int(height*16/9),3), np.uint8) -- which raises
\* ValueError on a negative dimension
imagestream_fetch ==
    /\ route = "mjpeg" /\ pc = "fetch"
    /\ fetched' = TRUE
    /\ \E frame \in Frames :
        IF frame.none /\ local.height < 0
        THEN /\ pc' = "raised"
             /\ local' = local
        ELSE /\ pc' = "encode"
             /\ local' = [local EXCEPT !.frame =
                            IF frame.none
                            THEN Shape(local.height, TruncDiv(local.height * 16, 9))
                            ELSE frame]
    /\ UNCHANGED <<route, args, resp, pipeline, stream>>

\* width = int(height*frame.shape[1]/frame.shape[0]); resize; imencode; yield
imagestream_encode ==
    /\ route = "mjpeg" /\ pc = "encode"
    /\ IF local.frame.h = 0
          \/ ~ResizeOk(local.frame, TruncDiv(local.height * local.frame.w, local.frame.h),
                       local.height)
       THEN /\ pc' = "raised"
            /\ stream' = stream
       ELSE /\ pc' = "yield"
            /\ stream' = [stream EXCEPT
                            !.chunks = IF @ < MaxChunks THEN @ + 1 ELSE @,
                            !.gap = stream.elapsed,
                            !.elapsed = 0,
                            !.late = IF stream.conn = "closed" /\ @ < MaxChunks
                                     THEN @ + 1 ELSE @]
    /\ UNCHANGED <<route, args, resp, local, pipeline, fetched>>

(***************************************************************************)
(* The specification                                                       *)
(***************************************************************************)
NoStream == [conn |-> "none"]

Routes == {"events", "snapshot", "stats", "latest", "best", "mjpeg"}

Init ==
    /\ route \in Routes
    /\ pc = "idle"
    /\ args = <<>>
    /\ resp = NoResponse
    /\ local = <<>>
    /\ db \in (IF route \in {"events", "snapshot"} THEN Stores ELSE {{}})
    /\ tracked_objects = [c \in CameraNames |-> [id \in TrackedIds |-> NotTracked]]
    /\ detection_fps \in (IF route = "stats" THEN [CameraNames -> GaugeValues]
                          ELSE {[c \in CameraNames |-> 0]})
    /\ fetched = FALSE
    /\ stream = NoStream

Next ==
    \/ events
    \/ event_snapshot \/ snapshot_member \/ snapshot_get \/ snapshot_jpg
    \/ Pipeline_tracking
    \/ stats \/ stats_sum \/ stats_round \/ stats_finish
    \/ Pipeline_gauge
    \/ latest_frame \/ best
    \/ mjpeg_feed
    \/ imagestream_start \/ imagestream_resume \/ imagestream_wake
    \/ imagestream_fetch \/ imagestream_encode
    \/ Tick \/ ConsumerClose

Spec == Init /\ [][Next]_vars

\* The server's thread runs the generator whenever it can run, and time
\* passes.
FairSpec ==
    /\ Spec
    /\ WF_vars(imagestream_start) /\ WF_vars(imagestream_resume)
    /\ WF_vars(imagestream_wake) /\ WF_vars(imagestream_fetch)
    /\ WF_vars(imagestream_encode) /\ WF_vars(Tick)

(***************************************************************************)
(* Properties                                                              *)
(***************************************************************************)
StreamStarted == route = "mjpeg" /\ pc \notin {"idle", "done"}

EventsDone == route = "events" /\ pc = "done"

\* C1: in a stream requested with fps >= 1, every chunk is emitted at least
\* 1/fps seconds after the previous one (the first one after the stream was
\* started), however long fetch, resize and encode take.
C1_MinInterval ==
    (StreamStarted /\ local.fps >= 1 /\ stream.chunks > 0)
        => stream.gap * local.fps >= TicksPerSecond

\* C1 witness: at fps = 2 a second chunk has followed the first after exactly
\* one sleep.
C1_Witness ==
    /\ StreamStarted /\ local.fps = 2 /\ stream.chunks >= 2
    /\ stream.gap = SleepTicks(2)

\* C2 as written, the suspension point being the sleep: once the connection
\* is closed, a loop that is in its sleep stops there; it does not go on to
\* fetch a frame.
C2_StopsAtSleep ==
    [][(StreamStarted /\ stream.conn = "closed" /\ pc = "sleep")
            => pc' \in {"sleep", "closed"}]_vars

\* C2 amended: the loop stops at its yield.  With the connection closed, a
\* generator suspended at its yield is closed there and runs no further; a
\* closed generator stays closed; at most one chunk is yielded after the
\* close; and after the close the loop eventually stops.
C2_StopsAtYield ==
    /\ [][(StreamStarted /\ stream.conn = "closed" /\ pc = "yield")
            => pc' \in {"yield", "closed"}]_vars
    /\ [][(StreamStarted /\ pc = "closed") => UNCHANGED <<pc, stream, local, fetched>>]_vars
    /\ [](StreamStarted => stream.late <= 1)
    /\ (StreamStarted /\ stream.conn = "closed") ~> (pc \in {"closed", "raised"})

\* C2 witness: the connection was closed while the loop was running, one more
\* chunk was yielded, and the generator was closed at that yield.
C2_Witness == StreamStarted /\ pc = "closed" /\ stream.late = 1

\* C3: a stream that the route accepted for a known camera never ends by
\* itself.
C3_NeverEndsItself == StreamStarted => pc # "raised"

Persisted(id) == \E e \in db : e.id = id

\* C4: for an id that is no persisted event, whatever the pipeline does
\* during the request, the answer is 404 or the snapshot bytes that a
\* tracked object of that id held; never a server fault.
C4_SnapshotTolerant ==
    (route = "snapshot" /\ pc = "done" /\ ~Persisted(args.id))
        => \/ resp.status = 404
           \/ /\ resp.status = 200
              /\ args.id \in TrackedIds
              /\ resp.body[1].kind = "tracked" /\ resp.body[1].id = args.id
              /\ \E c \in CameraNames :
                    /\ tracked_objects[c][args.id].state # "future"
                    /\ resp.body[1].jpg \in 1..tracked_objects[c][args.id].jpg

\* C4 witness: a tracked object passed the membership test and was gone at
\* the lookup, and the request ended in 404.
C4_Witness ==
    /\ route = "snapshot" /\ pc = "done" /\ ~Persisted(args.id)
    /\ local.tracked_obj = "None"
    /\ resp.status = 404

\* C5: on every camera route a request for an unknown camera is answered 404
\* with the text naming the camera, whatever the other parameters are; no
\* frame is fetched and no stream is started.
C5_UnknownCamera404 ==
    (route \in {"mjpeg", "latest", "best"} /\ pc # "idle" /\ args.camera \notin CameraNames)
        => /\ resp.status = 404
           /\ resp.body = CameraNotFound(args.camera).body
           /\ ~fetched
           /\ stream = NoStream

RECURSIVE SumSeq(_)
SumSeq(s) == IF s = <<>> THEN 0 ELSE Head(s) + SumSeq(Tail(s))

\* C6: in every /stats snapshot the total detection_fps is the sum of the
\* detection_fps values the same snapshot reports for the cameras.
C6_TotalIsSumOfReported ==
    (route = "stats" /\ pc = "done")
        => resp.body[1].detection_fps = Round2(SumSeq(resp.body[1].cameras))

\* C7: for every filter configuration and limit value the result is in
\* descending order of start time and no longer than limit (100 when omitted).
C7_SortedAndLimited ==
    (EventsDone /\ resp.status = 200)
        => /\ IsDescending(resp.body)
           /\ Len(resp.body) <= LimitOf(args).val

\* C8: with a zone filter z, every returned event has z in its zone set.
C8_ZoneMembership ==
    (EventsDone /\ resp.status = 200 /\ args.zone.given)
        => \A i \in 1..Len(resp.body) :
              \E j \in 1..Len(resp.body[i].zones) : resp.body[i].zones[j] = args.zone.text

\* The filter C9 states: every supplied option holds, bounds inclusive
SuppliedHold(e, a) ==
    /\ a.camera.given => e.camera = a.camera.text
    /\ a.label.given => e.label = a.label.text
    /\ a.after.given => e.start_time >= ParseInt(a.after.text).val
    /\ a.before.given => e.start_time <= ParseInt(a.before.text).val

Parsable(a) == a.given => ParseInt(a.text).ok

\* C9: for every supplied camera, label, after and before (0 and the empty
\* string included) the result is the first limit events, by start time
\* descending, of those that satisfy all the supplied options.  Stated for
\* requests with no zone, well-formed numbers and a limit >= 0.
C9_AndInclusive ==
    (/\ EventsDone /\ resp.status = 200 /\ ~args.zone.given
     /\ Parsable(args.after) /\ Parsable(args.before) /\ LimitOf(args).val >= 0)
        => /\ \A i \in 1..Len(resp.body) : SuppliedHold(resp.body[i], args)
           /\ \E rows \in OrderedRows({e \in db : SuppliedHold(e, args)}) :
                 resp.body = Take(rows, LimitOf(args).val)

\* C10: a request whose before, after or limit does not parse as a number is
\* answered with a 400-class response and no event list.
C10_InvalidFilter ==
    (EventsDone /\ (~Parsable(args.limit) \/ ~Parsable(args.after) \/ ~Parsable(args.before)))
        => resp.status >= 400 /\ resp.status < 500
====
